---- MODULE Spec2Model ----
(***************************************************************************)
(* A model of the Tui shell of tgt (src/src/tui.rs) together with the      *)
(* StatusBar component (src/src/components/status_bar.rs).                 *)
(*                                                                         *)
(* The shell owns a HashMap of three components, a focus state and the     *)
(* application configuration.  Its four operations are modelled as one     *)
(* action each: register_action_handler, handle_events, update and draw.   *)
(* Every action records what it did in observation variables (lastOp,      *)
(* lastArg, calls, result, main_layout), so that properties of a single    *)
(* call can be stated as state predicates.                                 *)
(***************************************************************************)
EXTENDS Integers, Sequences, FiniteSets, TLC

VARIABLES
    order,        \* iteration order of the HashMap `components` in this run
    components,   \* ComponentName -> component state (the registry)
    action_tx,    \* Option<UnboundedSender<Action>>
    app_config,   \* the configuration read by draw
    focused,      \* Option<ComponentName>
    lastOp,       \* the operation of Tui that ran last
    lastArg,      \* its argument
    calls,        \* the calls it made on the components, in order
    result,       \* the value it returned
    main_layout,  \* the regions split by draw; <<>> outside a draw
    channel       \* the action channel, its driver-side ends and the Tui's life

vars == <<order, components, action_tx, app_config, focused,
          lastOp, lastArg, calls, result, main_layout, channel>>

\* The variables of the Tui and of the observation of its last operation.
tuiVars == <<order, components, action_tx, app_config, focused,
             lastOp, lastArg, calls, result, main_layout>>

-----------------------------------------------------------------------------
(* Program constants.                                                      *)

\* components::SMALL_AREA_WIDTH (spec section 8: "assume threshold=60").
SMALL_AREA_WIDTH == 60

\* components::SMALL_AREA_HEIGHT.  The end-to-end scenario of the spec
\* (height 30 keeps the chrome, height 10 collapses it) puts it in 5..24.
SMALL_AREA_HEIGHT == 20

\* The Length of the title bar and of the status bar when they are shown.
CHROME_HEIGHT == 3

-----------------------------------------------------------------------------
(* Bounds of the model.                                                    *)

\* Heights tried on each side of the two thresholds of the layout.
HeightMargin == 1

\* Widths tried below the small-area threshold.
WidthMargin == 1

\* Number of distinct key codes.
NumKeys == 1

\* The largest y offset of a terminal area.
MaxY == 1

\* The largest number of actions waiting in the channel.
MaxQueue == 2

-----------------------------------------------------------------------------
(* Values.                                                                 *)

\* The keys Tui::new puts in the registry.
RegistryKeys == {"TitleBar", "CoreWindow", "StatusBar"}

\* ComponentName: the registry keys and, as the documentation of
\* Tui::focused has it ("the focus is a component inside the CoreWindow"), a
\* component inside the CoreWindow.
ComponentName == RegistryKeys \cup {"ChatList"}

Rect(x, y, w, h) == [x |-> x, y |-> y, width |-> w, height |-> h]

\* Rect::default()
RectDefault == Rect(0, 0, 0, 0)

Heights ==
    {10, 30}
    \cup ((SMALL_AREA_HEIGHT - HeightMargin) .. SMALL_AREA_HEIGHT)
    \cup ((SMALL_AREA_HEIGHT + 5) .. (SMALL_AREA_HEIGHT + 5 + HeightMargin))

Widths == {40, 100} \cup ((SMALL_AREA_WIDTH - WidthMargin) .. SMALL_AREA_WIDTH)

\* The terminal areas tried: every height at full width, and every width at
\* the height of the collapsed scenario.
Areas ==
    {Rect(0, y, 100, h) : y \in 0..MaxY, h \in Heights}
    \cup {Rect(0, 0, w, 10) : w \in Widths}

Keys == 1..NumKeys

\* KeyModifiers
Modifiers == {"NONE"}

\* Option and Result values.
NoneR == [tag |-> "None"]
SomeR(a) == [tag |-> "Some", val |-> a]
ErrR == [tag |-> "Err"]
OkUnit == [tag |-> "Ok"]

\* enums::action::Action
FocusComponent(n) == [type |-> "FocusComponent", name |-> n]
UnfocusComponent == [type |-> "UnfocusComponent"]
UpdateArea(r) == [type |-> "UpdateArea", area |-> r]
KeyAction(k, m) == [type |-> "Key", key |-> k, modifiers |-> m]
OtherAction(i) == [type |-> "Other", id |-> i]

\* The actions dispatched through Tui::update, with the areas in `areas`.
ActionsOver(areas) ==
    {FocusComponent(n) : n \in ComponentName}
    \cup {UnfocusComponent}
    \cup {UpdateArea(r) : r \in areas}
    \cup {KeyAction(k, m) : k \in Keys, m \in Modifiers}
    \cup {OtherAction(0)}

\* enums::event::Event, as Option<Event>
EventUnknown == [type |-> "Unknown"]
EventKey(k, m) == [type |-> "Key", key |-> k, modifiers |-> m]
Events == {NoneR, SomeR(EventUnknown)}
          \cup {SomeR(EventKey(k, m)) : k \in Keys, m \in Modifiers}

-----------------------------------------------------------------------------
(* The components.                                                         *)

\* StatusBar::new().with_name("Status Bar")
StatusBarNew ==
    [name |-> "Status Bar",
     command_tx |-> "None",
     small_area |-> FALSE,
     focused |-> FALSE,
     terminal_area |-> RectDefault,
     last_key |-> EventUnknown]

\* StatusBar::register_action_handler
StatusBarRegister(sb, tx) == [sb EXCEPT !.command_tx = tx]

\* StatusBarUpdate with a focus action marking the StatusBar focused.
StatusBarUpdate_FocusSets(sb, action) ==
    CASE action.type = "UpdateArea" -> [sb EXCEPT !.terminal_area = action.area]
      [] action.type = "Key" ->
            [sb EXCEPT !.last_key = EventKey(action.key, action.modifiers)]
      [] action.type = "FocusComponent" -> [sb EXCEPT !.focused = TRUE]
      [] OTHER -> sb

\* StatusBarUpdate with UpdateArea ignored.
StatusBarUpdate_IgnoresArea(sb, action) ==
    CASE action.type = "Key" ->
            [sb EXCEPT !.last_key = EventKey(action.key, action.modifiers)]
      [] OTHER -> sb

\* StatusBar::update: the state of the StatusBar after `action`.
StatusBarUpdate(sb, action) ==
    CASE action.type = "UpdateArea" -> [sb EXCEPT !.terminal_area = action.area]
      [] action.type = "Key" ->
            [sb EXCEPT !.last_key = EventKey(action.key, action.modifiers)]
      [] OTHER -> sb

\* TitleBar::new().with_name("Tgt")
TitleBarNew == [name |-> "Tgt", command_tx |-> "None"]

\* CoreWindow::new().with_name("CoreWindow")
CoreWindowNew == [name |-> "CoreWindow", command_tx |-> "None", small_area |-> FALSE]

\* Component::register_action_handler of component `name`: it keeps the
\* sender.
ComponentRegister(name, c, tx) ==
    IF name = "StatusBar" THEN StatusBarRegister(c, tx) ELSE [c EXCEPT !.command_tx = tx]

\* HandleSmallArea::with_small_area
WithSmallArea(c, small_area) == [c EXCEPT !.small_area = small_area]

\* Component::update of component `name` applied to its state `c`.  Only the
\* StatusBar keeps state that an action changes.
ComponentUpdate(name, c, action) ==
    IF name = "StatusBar" THEN StatusBarUpdate(c, action) ELSE c

\* What Component::update of `name` may return.  StatusBar::update returns
\* nothing; the other two return io::Result<Option<Action>>.
UpdateReplies(name) ==
    IF name = "StatusBar" THEN {NoneR}
    ELSE IF name = "TitleBar" THEN {NoneR, SomeR(OtherAction(1)), ErrR}
    ELSE {NoneR, SomeR(OtherAction(2)), ErrR}

\* What Component::draw of `name` may return.  StatusBar::draw always
\* returns Ok(()).
DrawReplies(name) == IF name = "StatusBar" THEN {OkUnit} ELSE {OkUnit, ErrR}

\* What CoreWindow::handle_events may return.
EventReplies == {NoneR, ErrR} \cup {SomeR(KeyAction(k, m)) : k \in Keys, m \in Modifiers}

\* The ways the three components may reply to one broadcast: one reply each.
ReplyMaps(ts, cs, ss) ==
    {[n \in RegistryKeys |-> CASE n = "TitleBar" -> t [] n = "CoreWindow" -> c [] OTHER -> sb] :
        t \in ts, c \in cs, sb \in ss}

\* A call made on a component: the method, its argument and what it returned.
Call(c, m, a, r) == [comp |-> c, method |-> m, arg |-> a, ret |-> r]

-----------------------------------------------------------------------------
(* Tui.                                                                    *)

Minimum(a, b) == IF a < b THEN a ELSE b

\* The orders in which a HashMap holding `keys` may iterate.  The order
\* depends on the hasher's random state: it is fixed while the map is not
\* modified, and differs from one run of the program to the next.
IterationOrders(keys) ==
    {s \in [1..Cardinality(keys) -> keys] : \A i, j \in DOMAIN s : s[i] = s[j] => i = j}

\* The order in which Tui::new lists the components.
ConstructionOrder == <<"TitleBar", "CoreWindow", "StatusBar">>

\* NewComponents without the StatusBar.
NewComponents_NoStatusBar ==
    [n \in {"TitleBar", "CoreWindow"} |->
        IF n = "TitleBar" THEN TitleBarNew ELSE CoreWindowNew]

\* The registry built by Tui::new.
NewComponents ==
    [n \in RegistryKeys |->
        CASE n = "TitleBar" -> TitleBarNew
          [] n = "CoreWindow" -> CoreWindowNew
          [] OTHER -> StatusBarNew]

\* FocusAfter with FocusComponent applied only while nothing is focused.
FocusAfter_OnlyWhenUnfocused(f, action) ==
    CASE action.type = "FocusComponent" -> IF f = "None" THEN action.name ELSE f
      [] action.type = "UnfocusComponent" -> "None"
      [] OTHER -> f

\* FocusAfter with every other action clearing the focus.
FocusAfter_OtherClears(f, action) ==
    CASE action.type = "FocusComponent" -> action.name
      [] OTHER -> "None"

\* FocusAfter with an identity outside the registry rejected.
FocusAfter_Validated(f, action) ==
    CASE action.type = "FocusComponent" ->
            IF action.name \in RegistryKeys THEN action.name ELSE f
      [] action.type = "UnfocusComponent" -> "None"
      [] OTHER -> f

\* The match on the action at the head of Tui::update: the focus state
\* after `action`, from focus state `f`.
FocusAfter(f, action) ==
    CASE action.type = "FocusComponent" -> action.name
      [] action.type = "UnfocusComponent" -> "None"
      [] OTHER -> f

\* FocusOnReturn with the focus restored when the dispatch failed.
FocusOnReturn_RollsBack(old, new, res) == IF res.tag = "Err" THEN old ELSE new

\* Tui::update: self.focused when update returns `res`, `old` being the focus
\* at the call and `new` the focus assigned ahead of the dispatch; nothing
\* after the dispatch writes it.
FocusOnReturn(old, new, res) == new

\* FoldClosure with a None reply erasing the accumulator.
FoldClosure_NoneErases(acc, reply) ==
    CASE reply.tag = "Some" -> reply
      [] reply.tag = "None" -> NoneR
      [] OTHER -> ErrR

\* FoldClosure with an error of a component swallowed.
FoldClosure_SwallowsErr(acc, reply) ==
    CASE reply.tag = "Some" -> reply
      [] OTHER -> acc

\* The closure of the try_fold in Tui::update: the accumulator after a
\* component replied `reply`, or the error.
FoldClosure(acc, reply) ==
    CASE reply.tag = "Some" -> reply
      [] reply.tag = "None" -> acc
      [] OTHER -> ErrR

\* FoldBreaks with the fold stopping at the first follow-up as well.
FoldBreaks_OnFirstReply(r) == r.tag \in {"Err", "Some"}

\* try_fold stops at the first error the closure returns.
FoldBreaks(r) == r.tag = "Err"

\* try_fold over the components in iteration order `ord`, from position i
\* with accumulator acc: the value returned and the number of components
\* visited.
RECURSIVE TryFoldFrom(_, _, _, _)
TryFoldFrom(i, acc, ord, replies) ==
    IF i > Len(ord)
    THEN [result |-> acc, visited |-> Len(ord)]
    ELSE LET r == FoldClosure(acc, replies[ord[i]])
         IN  IF FoldBreaks(r)
             THEN [result |-> r, visited |-> i]
             ELSE TryFoldFrom(i + 1, r, ord, replies)

TryFold(ord, replies) == TryFoldFrom(1, NoneR, ord, replies)

\* EventTarget with the events sent to the StatusBar.
EventTarget_StatusBar == "StatusBar"

\* The component that receives the events.
EventTarget == "CoreWindow"

\* ChromeLength with the chrome kept at the threshold height.
ChromeLength_AtThreshold(show, height) ==
    IF show
    THEN IF height >= SMALL_AREA_HEIGHT + 5 THEN CHROME_HEIGHT ELSE 0
    ELSE 0

\* The Length constraint of the title bar or of the status bar.
ChromeLength(show, height) ==
    IF show
    THEN IF height > SMALL_AREA_HEIGHT + 5 THEN CHROME_HEIGHT ELSE 0
    ELSE 0

\* VerticalSplit with the body starting at the top of the area.
VerticalSplit_BodyAtTop(area, top, min, bottom) ==
    LET body == area.height - top - bottom
    IN  <<Rect(area.x, area.y, area.width, top),
          Rect(area.x, area.y, area.width, body),
          Rect(area.x, area.y + top + body, area.width, bottom)>>

\* Layout::new(Vertical, [Length(top), Min(min), Length(bottom)]).split(area).
\* When the three constraints fit in the area the lengths are exact and the
\* Min segment takes the rest; otherwise the regions stay inside the area,
\* the Min segment is served first and the lengths share what is left.
VerticalSplit(area, top, min, bottom) ==
    LET h == area.height
        fits == top + min + bottom <= h
        body == IF fits THEN h - top - bottom ELSE Minimum(h, min)
        t == IF fits THEN top ELSE Minimum(top, h - body)
        b == h - body - t
    IN  <<Rect(area.x, area.y, area.width, t),
          Rect(area.x, area.y + t, area.width, body),
          Rect(area.x, area.y + t + body, area.width, b)>>

\* MainLayout as the usual header, body, footer layout: fixed chrome and no
\* floor under the body.
MainLayout_FixedChrome(area, config) ==
    VerticalSplit(area,
                  IF config.show_title_bar THEN CHROME_HEIGHT ELSE 0,
                  0,
                  IF config.show_status_bar THEN CHROME_HEIGHT ELSE 0)

\* main_layout of Tui::draw: the title bar, the body and the status bar.
MainLayout(area, config) ==
    VerticalSplit(area,
                  ChromeLength(config.show_title_bar, area.height),
                  SMALL_AREA_HEIGHT,
                  ChromeLength(config.show_status_bar, area.height))

\* IsSmallArea with the threshold width counted as small.
IsSmallArea_Inclusive(area) == area.width <= SMALL_AREA_WIDTH

\* The flag Tui::draw passes to with_small_area.
IsSmallArea(area) == area.width < SMALL_AREA_WIDTH

\* The order in which Tui::draw paints the components.
DrawOrder == <<"TitleBar", "CoreWindow", "StatusBar">>

\* The number of components Tui::draw paints: all of them, or up to and
\* including the first whose draw fails.
\* DrawUpdateTargets with the area sent to every component painted.
DrawUpdateTargets_All == DrawOrder

\* The components Tui::draw updates with UpdateArea(area): the StatusBar alone.
DrawUpdateTargets == <<"StatusBar">>

\* PaintedFrom with every component painted whatever the earlier ones returned.
PaintedFrom_All(i, replies) == Len(DrawOrder)

RECURSIVE PaintedFrom(_, _)
PaintedFrom(i, replies) ==
    IF i > Len(DrawOrder) THEN Len(DrawOrder)
    ELSE IF replies[DrawOrder[i]].tag = "Err" THEN i
    ELSE PaintedFrom(i + 1, replies)

-----------------------------------------------------------------------------
(* AppConfig (configs/custom/app_custom.rs).                               *)

\* The frame rates tried.
FrameRates == {30, 60, 120}

\* AppConfig
AppConfigs == [mouse_support : BOOLEAN, paste_support : BOOLEAN, frame_rate : FrameRates]

Options(S) == {NoneR} \cup {SomeR(v) : v \in S}

\* AppRaw: every field is optional.
AppRaws ==
    [mouse_support : Options(BOOLEAN), paste_support : Options(BOOLEAN),
     frame_rate : Options(FrameRates)]

\* `if let Some(v) = other.field { self.field = v; }`
MergeField(current, field) == IF field.tag = "Some" THEN field.val ELSE current

\* AppConfigMerged with paste_support never overridden.
AppConfigMerged_SkipsPaste(config, other) ==
    IF other.tag = "None" THEN config
    ELSE [mouse_support |-> MergeField(config.mouse_support, other.val.mouse_support),
          paste_support |-> config.paste_support,
          frame_rate |-> MergeField(config.frame_rate, other.val.frame_rate)]

\* AppConfig::merge: the receiver after merge(other).
AppConfigMerged(config, other) ==
    IF other.tag = "None" THEN config
    ELSE [mouse_support |-> MergeField(config.mouse_support, other.val.mouse_support),
          paste_support |-> MergeField(config.paste_support, other.val.paste_support),
          frame_rate |-> MergeField(config.frame_rate, other.val.frame_rate)]

\* AppConfig::merge: the value returned, a clone of the receiver taken after
\* the fields are assigned.
AppConfigMergeReturn(config, other) == AppConfigMerged(config, other)

-----------------------------------------------------------------------------
(* The action channel.                                                     *)

\* The channel as the driver creates it: the driver holds the sender and the
\* Tui, nothing is queued and the receiving loop runs.
ChannelNew == [driver_tx |-> TRUE, tui |-> TRUE, queue |-> 0, loop |-> "running"]

\* KeptSenders with the Tui and its components holding no sender.
KeptSenders_None == {}

\* The clones of the sender that register_action_handler left in the Tui
\* and in its components, by holder.
KeptSenders ==
    (IF action_tx = "tx" THEN {"Tui"} ELSE {})
    \cup {n \in DOMAIN components : components[n].command_tx = "tx"}

\* The live sending handles of the channel: the driver's own, and the clones
\* kept in the Tui while the Tui lives.
SenderHandles ==
    (IF channel.driver_tx THEN {"driver"} ELSE {})
    \cup (IF channel.tui THEN KeptSenders ELSE {})

-----------------------------------------------------------------------------
(* The state machine.                                                      *)

\* Tui::new(app_config, keymap_config), with the configuration drawn from
\* `configs` and the iteration order of the new HashMap from `orders`.
InitWith(orders, configs) ==
    /\ order \in orders
    /\ components = NewComponents
    /\ action_tx = "None"
    /\ app_config \in configs
    /\ focused = "None"
    /\ lastOp = "new"
    /\ lastArg = NoneR
    /\ calls = <<>>
    /\ result = NoneR
    /\ main_layout = <<>>
    /\ channel = ChannelNew

\* Tui::register_action_handler
RegisterActionHandler ==
    /\ action_tx' = "tx"
    /\ components' = [n \in DOMAIN components |-> ComponentRegister(n, components[n], "tx")]
    /\ calls' = [i \in 1..Len(order) |-> Call(order[i], "register_action_handler", SomeR("tx"), OkUnit)]
    /\ lastOp' = "register_action_handler"
    /\ lastArg' = SomeR("tx")
    /\ result' = OkUnit
    /\ main_layout' = <<>>
    /\ UNCHANGED <<order, app_config, focused, channel>>

\* Tui::handle_events, with the event drawn from `events`.
HandleEvents(events) ==
    \E event \in events, reply \in EventReplies :
        /\ EventTarget \in DOMAIN components
        /\ calls' = <<Call(EventTarget, "handle_events", event, reply)>>
        /\ result' = reply
        /\ lastOp' = "handle_events"
        /\ lastArg' = event
        /\ main_layout' = <<>>
        /\ UNCHANGED <<order, components, action_tx, app_config, focused, channel>>

\* Tui::update, with the action drawn from `actions`.
Update(actions) ==
    \E action \in actions :
    \E replies \in ReplyMaps(UpdateReplies("TitleBar"), UpdateReplies("CoreWindow"),
                             UpdateReplies("StatusBar")) :
        /\ LET fold == TryFold(order, replies)
               seen == {order[i] : i \in 1..fold.visited}
           IN  /\ focused' = FocusOnReturn(focused, FocusAfter(focused, action), fold.result)
               /\ components' =
                    [n \in DOMAIN components |->
                        IF n \in seen
                        THEN ComponentUpdate(n, components[n], action)
                        ELSE components[n]]
               /\ calls' = [i \in 1..fold.visited |-> Call(order[i], "update", action, replies[order[i]])]
               /\ result' = fold.result
        /\ lastOp' = "update"
        /\ lastArg' = action
        /\ main_layout' = <<>>
        /\ UNCHANGED <<order, action_tx, app_config, channel>>

\* Tui::draw, with the area drawn from `areas`.
Draw(areas) ==
    \E area \in areas :
    \E replies \in ReplyMaps(DrawReplies("TitleBar"), DrawReplies("CoreWindow"),
                             DrawReplies("StatusBar")) :
        /\ {"StatusBar", "CoreWindow", "TitleBar"} \subseteq DOMAIN components
        /\ LET small == IsSmallArea(area)
               layout == MainLayout(area, app_config)
               painted == PaintedFrom(1, replies)
               updated ==
                    [n \in DOMAIN components |->
                        IF \E i \in DOMAIN DrawUpdateTargets : DrawUpdateTargets[i] = n
                        THEN ComponentUpdate(n, components[n], UpdateArea(area))
                        ELSE components[n]]
           IN  /\ components' = [updated EXCEPT !["CoreWindow"] = WithSmallArea(@, small)]
               /\ main_layout' = layout
               /\ calls' =
                    [i \in DOMAIN DrawUpdateTargets |->
                        Call(DrawUpdateTargets[i], "update", UpdateArea(area), NoneR)]
                    \o <<Call("CoreWindow", "with_small_area", [flag |-> small], OkUnit)>>
                    \o [i \in 1..painted |->
                            Call(DrawOrder[i], "draw", layout[i], replies[DrawOrder[i]])]
               /\ result' = IF replies[DrawOrder[painted]].tag = "Err" THEN ErrR ELSE OkUnit
        /\ lastOp' = "draw"
        /\ lastArg' = area
        /\ UNCHANGED <<order, action_tx, app_config, focused, channel>>

\* The two areas of the end-to-end scenario.
ScenarioAreas == {Rect(0, 0, 100, 30), Rect(0, 0, 40, 10)}

Configs == [show_title_bar : BOOLEAN, show_status_bar : BOOLEAN]

\* The configuration that shows the title bar and the status bar.
ShowAll == [show_title_bar |-> TRUE, show_status_bar |-> TRUE]

\* The area of the first scenario.
DispatchAreas == {Rect(0, 0, 100, 30)}

\* The shell under dispatch: every iteration order of the registry, every
\* kind of action, every event, every combination of replies; one area.
Init == InitWith(IterationOrders(RegistryKeys), {ShowAll})

Next ==
    \/ RegisterActionHandler
    \/ HandleEvents(Events)
    \/ Update(ActionsOver(DispatchAreas))
    \/ Draw(DispatchAreas)

Spec == Init /\ [][Next]_vars

\* The shell under layout: every configuration and every area in Areas is
\* drawn; the actions dispatched are the area updates.
LayoutInit == InitWith({ConstructionOrder}, Configs)

LayoutNext ==
    \/ RegisterActionHandler
    \/ HandleEvents({NoneR})
    \/ Update({UpdateArea(r) : r \in ScenarioAreas})
    \/ Draw(Areas)

LayoutSpec == LayoutInit /\ [][LayoutNext]_vars

\* AppConfig::merge on the configuration, with any raw configuration or none.
Merge ==
    \E other \in Options(AppRaws) :
        /\ app_config' = AppConfigMerged(app_config, other)
        /\ result' = AppConfigMergeReturn(app_config, other)
        /\ lastOp' = "merge"
        /\ lastArg' = other
        /\ UNCHANGED <<order, components, action_tx, focused, calls, main_layout, channel>>

\* The configuration under merge: every AppConfig, merged again and again.
MergeInit == InitWith({ConstructionOrder}, AppConfigs)

MergeNext == Merge

MergeSpec == MergeInit /\ [][MergeNext]_vars

\* A holder of a live sender enqueues an action.
Send ==
    /\ SenderHandles # {}
    /\ channel.queue < MaxQueue
    /\ channel' = [channel EXCEPT !.queue = @ + 1]
    /\ UNCHANGED tuiVars

\* The driver drops its sender.
DropDriverSender ==
    /\ channel.driver_tx
    /\ channel' = [channel EXCEPT !.driver_tx = FALSE]
    /\ UNCHANGED tuiVars

\* The Tui is dropped, and its components and their senders with it.
DropTui ==
    /\ channel.tui
    /\ channel' = [channel EXCEPT !.tui = FALSE]
    /\ UNCHANGED tuiVars

\* The receiving loop takes the next action from the channel.
Receive ==
    /\ channel.loop = "running"
    /\ channel.queue > 0
    /\ channel' = [channel EXCEPT !.queue = @ - 1]
    /\ UNCHANGED tuiVars

\* The receiving loop finds the channel empty and closed, every sender
\* being dropped, and ends without error.
ObserveClosed ==
    /\ channel.loop = "running"
    /\ channel.queue = 0
    /\ SenderHandles = {}
    /\ channel' = [channel EXCEPT !.loop = "closed"]
    /\ UNCHANGED tuiVars

\* The operations of the Tui while it lives; the driver registers the
\* handler with a clone of the sender it holds.
LiveRegister == channel.tui /\ channel.driver_tx /\ RegisterActionHandler
LiveHandleEvents == channel.tui /\ HandleEvents({NoneR})
LiveUpdate == channel.tui /\ Update({OtherAction(0)})
LiveDraw == channel.tui /\ Draw(DispatchAreas)

\* The shell and its channel: the Tui with one action, one event and one
\* area, and the life of the senders and of the receiving loop.
ChannelInit == InitWith({ConstructionOrder}, {ShowAll})

ChannelNext ==
    \/ LiveRegister
    \/ LiveHandleEvents
    \/ LiveUpdate
    \/ LiveDraw
    \/ Send
    \/ DropDriverSender
    \/ DropTui
    \/ Receive
    \/ ObserveClosed

\* The receiving loop is a running task: it takes an action when one waits
\* and sees the closure when the channel is closed.
ChannelSpec ==
    ChannelInit /\ [][ChannelNext]_vars /\ WF_vars(Receive) /\ WF_vars(ObserveClosed)

-----------------------------------------------------------------------------
(* Properties.                                                             *)

\* The positions of `calls` at which component n was called.
CallsOf(n) == {i \in DOMAIN calls : calls[i].comp = n}

\* The sequence of components the last operation visited.
Visited == [i \in DOMAIN calls |-> calls[i].comp]

\* No call of the last operation returned an error.
NoCallFailed == \A i \in DOMAIN calls : calls[i].ret.tag # "Err"

\* The positions of `calls` whose call returned a follow-up action.
Producers == {i \in DOMAIN calls : calls[i].ret.tag = "Some"}

Largest(S) == CHOOSE i \in S : \A j \in S : j <= i

\* C1: Tui::update never short-circuits: when no component's update
\* returned an error, every component of the registry received exactly one
\* update call carrying the original action, whether or not a component
\* visited earlier returned a follow-up.
C1_NoShortCircuit ==
    (lastOp = "update" /\ NoCallFailed) =>
        /\ \A n \in DOMAIN components : Cardinality(CallsOf(n)) = 1
        /\ \A i \in DOMAIN calls : calls[i].method = "update" /\ calls[i].arg = lastArg

\* C1 witness: the first component visited returned a follow-up and the
\* two after it were still called.
C1_Witness ==
    /\ lastOp = "update"
    /\ Len(calls) = 3
    /\ calls[1].ret.tag = "Some"
    /\ NoCallFailed

\* C2: the value Tui::update returns is the follow-up of the last component,
\* in visiting order, that returned one; it is None exactly when every
\* component returned None.
C2_LastProducerWins ==
    (lastOp = "update" /\ NoCallFailed) =>
        /\ Producers # {} => result = calls[Largest(Producers)].ret
        /\ Producers = {} <=> result = NoneR

\* C2 witness: two components returned different follow-ups, the one
\* visited last returned None, and the second follow-up is the result.
C2_Witness ==
    /\ lastOp = "update"
    /\ Len(calls) = 3
    /\ calls[1].ret.tag = "Some"
    /\ calls[2].ret.tag = "Some"
    /\ calls[1].ret # calls[2].ret
    /\ calls[3].ret = NoneR
    /\ result = calls[2].ret

\* The replies of a broadcast that visited every component, by component.
RepliesOfCalls == [n \in RegistryKeys |-> calls[CHOOSE i \in DOMAIN calls : calls[i].comp = n].ret]

\* C3: broadcast dispatch visits the components in one fixed order, the same
\* on every run: whatever order a HashMap of these keys can iterate in, the
\* components were visited in that order and the action returned is the one
\* that order gives for the same replies.
C3_OneFixedOrder ==
    (lastOp \in {"update", "register_action_handler"} /\ Len(calls) = 3) =>
        \A o \in IterationOrders(DOMAIN components) :
            /\ Visited = o
            /\ (lastOp = "update" /\ NoCallFailed) => result = TryFold(o, RepliesOfCalls).result

\* C4: the focus state machine.  After Tui::update(FocusComponent(X)) the
\* focus state is FocusedOn(X), after Tui::update(UnfocusComponent) it is
\* Unfocused, and at most one identity is focused.
C4_FocusStateMachine ==
    /\ focused \in ComponentName \cup {"None"}
    /\ (lastOp = "update" /\ lastArg.type = "FocusComponent") => focused = lastArg.name
    /\ (lastOp = "update" /\ lastArg.type = "UnfocusComponent") => focused = "None"

\* C4 witness: UnfocusComponent was dispatched and the shell is unfocused,
\* and the dispatch failed in a component.
C4_Witness ==
    /\ lastOp = "update"
    /\ lastArg = UnfocusComponent
    /\ focused = "None"
    /\ result = ErrR

\* C5: the focus state changes only in Tui::update with a FocusComponent or
\* an UnfocusComponent action.
C5_FocusFrame ==
    [][focused' # focused =>
        /\ lastOp' = "update"
        /\ lastArg'.type \in {"FocusComponent", "UnfocusComponent"}]_vars

\* C5 witness: a draw ran while a component was focused.
C5_Witness == lastOp = "draw" /\ focused = "CoreWindow"

\* C6, as claimed: the focused identity, if any, is a key of the registry.
C6_FocusedIsRegistered == focused # "None" => focused \in DOMAIN components

\* C6, amended: Tui::update applies FocusComponent(identity) whether or not
\* the identity is a key of the registry.
C6_FocusNotValidated ==
    (lastOp = "update" /\ lastArg.type = "FocusComponent"
        /\ lastArg.name \notin DOMAIN components)
    => focused = lastArg.name

\* C6 witness: an identity outside the registry holds the focus.
C6_Witness == lastOp = "update" /\ focused \in ComponentName \ DOMAIN components

\* C7: Tui::handle_events calls handle_events once, on the CoreWindow only,
\* with the event, and returns its result; no other component changes.
C7_EventIsolation ==
    /\ [](lastOp = "handle_events" =>
            /\ Len(calls) = 1
            /\ calls[1].comp = "CoreWindow"
            /\ calls[1].method = "handle_events"
            /\ calls[1].arg = lastArg
            /\ result = calls[1].ret)
    /\ [][lastOp' = "handle_events" =>
            \A n \in DOMAIN components \ {"CoreWindow"} : components'[n] = components[n]]_vars

\* C7 witness: an event produced an action while the StatusBar held a key
\* and an area.
C7_Witness ==
    /\ lastOp = "handle_events"
    /\ result.tag = "Some"
    /\ components["StatusBar"].last_key # EventUnknown
    /\ components["StatusBar"].terminal_area # RectDefault

\* C8: the chrome heights.  At height <= SMALL_AREA_HEIGHT + 5 the header
\* and the footer have height 0; above it each has height 3 when its flag is
\* set and 0 otherwise, and with both flags the body has height h - 6.
C8_ChromeHeights ==
    lastOp = "draw" =>
        LET h == lastArg.height
            header == main_layout[1].height
            body == main_layout[2].height
            footer == main_layout[3].height
        IN  /\ h <= SMALL_AREA_HEIGHT + 5 => header = 0 /\ footer = 0
            /\ h > SMALL_AREA_HEIGHT + 5 =>
                /\ header = (IF app_config.show_title_bar THEN 3 ELSE 0)
                /\ footer = (IF app_config.show_status_bar THEN 3 ELSE 0)
                /\ (app_config.show_title_bar /\ app_config.show_status_bar) => body = h - 6

\* C8 witness: the first height above the threshold, with both flags.
C8_Witness ==
    /\ lastOp = "draw"
    /\ lastArg.height = SMALL_AREA_HEIGHT + 6
    /\ main_layout[1].height = 3
    /\ main_layout[3].height = 3
    /\ main_layout[2].height = SMALL_AREA_HEIGHT

\* C9, as claimed: the body has height at least SMALL_AREA_HEIGHT for every
\* area.
C9_BodyFloor == lastOp = "draw" => main_layout[2].height >= SMALL_AREA_HEIGHT

\* C9, amended: the body has height at least SMALL_AREA_HEIGHT for every
\* area of height at least SMALL_AREA_HEIGHT; in a lower area the body is as
\* high as the area.
C9_BodyFloorInTallAreas ==
    lastOp = "draw" =>
        /\ lastArg.height >= SMALL_AREA_HEIGHT => main_layout[2].height >= SMALL_AREA_HEIGHT
        /\ lastArg.height < SMALL_AREA_HEIGHT => main_layout[2].height = lastArg.height

\* C9 witness: an area exactly SMALL_AREA_HEIGHT high, drawn with both
\* flags set.
C9_Witness ==
    /\ lastOp = "draw"
    /\ app_config = ShowAll
    /\ lastArg.height = SMALL_AREA_HEIGHT
    /\ main_layout[2].height = SMALL_AREA_HEIGHT

\* C10: the three regions tile the area from top to bottom, each as wide as
\* the area; the scenario area gives the scenario's regions, and at or below
\* the collapse threshold the body is the whole area.
C10_RegionsTile ==
    lastOp = "draw" =>
        LET a == lastArg
            header == main_layout[1]
            body == main_layout[2]
            footer == main_layout[3]
        IN  /\ Len(main_layout) = 3
            /\ \A i \in 1..3 :
                /\ main_layout[i].x = a.x
                /\ main_layout[i].width = a.width
                /\ main_layout[i].height >= 0
            /\ header.y = a.y
            /\ body.y = header.y + header.height
            /\ footer.y = body.y + body.height
            /\ footer.y + footer.height = a.y + a.height
            /\ (a = Rect(0, 0, 100, 30) /\ app_config = ShowAll) =>
                    main_layout = <<Rect(0, 0, 100, 3), Rect(0, 3, 100, 24), Rect(0, 27, 100, 3)>>
            /\ a.height <= SMALL_AREA_HEIGHT + 5 => body = a

\* C10 witness: the first scenario, at a non-zero offset.
C10_Witness ==
    /\ lastOp = "draw"
    /\ app_config = ShowAll
    /\ lastArg = Rect(0, 1, 100, 30)
    /\ main_layout = <<Rect(0, 1, 100, 3), Rect(0, 4, 100, 24), Rect(0, 28, 100, 3)>>

\* C11: after every Tui::draw(area) the small-area flag of the CoreWindow is
\* (area.width < SMALL_AREA_WIDTH).
C11_SmallAreaFlag ==
    lastOp = "draw" =>
        /\ lastArg.width < SMALL_AREA_WIDTH => components["CoreWindow"].small_area = TRUE
        /\ lastArg.width >= SMALL_AREA_WIDTH => components["CoreWindow"].small_area = FALSE

\* C11 witness: a draw one column below the threshold raised the flag.
C11_Witness ==
    /\ lastOp = "draw"
    /\ lastArg.width = SMALL_AREA_WIDTH - 1
    /\ components["CoreWindow"].small_area = TRUE

\* C12: when a component's update returns an error the dispatch aborts: the
\* error is returned, the failing call is the last call made, so no later
\* component received the action, and no follow-up is returned.
C12_ErrorAborts ==
    (lastOp = "update" /\ ~NoCallFailed) =>
        /\ result = ErrR
        /\ calls[Len(calls)].ret.tag = "Err"
        /\ \A i \in 1..(Len(calls) - 1) : calls[i].ret.tag # "Err"
        /\ Visited = SubSeq(order, 1, Len(calls))
        /\ \A n \in DOMAIN components : Cardinality(CallsOf(n)) <= 1

\* C12 witness: the first component returned a follow-up, the second failed
\* and the third was not visited.
C12_Witness ==
    /\ lastOp = "update"
    /\ Len(calls) = 2
    /\ calls[1].ret.tag = "Some"
    /\ calls[2].ret.tag = "Err"
    /\ result = ErrR

\* C13: the registry holds exactly TitleBar, CoreWindow and StatusBar, one
\* component each, in every reachable state.
C13_RegistryKeys ==
    /\ DOMAIN components = {"TitleBar", "CoreWindow", "StatusBar"}
    /\ components["TitleBar"].name = "Tgt"
    /\ components["CoreWindow"].name = "CoreWindow"
    /\ components["StatusBar"].name = "Status Bar"

\* C13 witness: a draw that painted the three components after the handler
\* was registered and a component was focused.
C13_Witness ==
    /\ lastOp = "draw"
    /\ result = OkUnit
    /\ action_tx = "tx"
    /\ focused # "None"
    /\ {calls[i].comp : i \in DOMAIN calls} = {"TitleBar", "CoreWindow", "StatusBar"}

\* C14, as claimed: once register_action_handler has run and the driver has
\* dropped its sender, the receiving loop, the queue being drained, can
\* observe the closure of the channel (or has done so).
C14_DriverDropCloses ==
    (action_tx = "tx" /\ ~channel.driver_tx /\ channel.queue = 0) =>
        (channel.loop = "closed" \/ ENABLED ObserveClosed)

\* C14, amended: the loop ends only with every sender dropped; while the
\* Tui that register_action_handler gave clones to lives, the loop does not
\* end, whether or not the driver dropped its own sender; and once every
\* sender is dropped the loop eventually ends.
C14_ClosesWhenAllDropped ==
    /\ [](channel.loop = "closed" => SenderHandles = {})
    /\ []((action_tx = "tx" /\ channel.tui) => channel.loop = "running")
    /\ (SenderHandles = {} ~> channel.loop = "closed")

\* C14 witness: the handler was registered, the driver's sender and the Tui
\* were dropped, and the loop ended.
C14_Witness ==
    /\ action_tx = "tx"
    /\ ~channel.driver_tx
    /\ ~channel.tui
    /\ channel.loop = "closed"

\* C15: AppConfig::merge(raw) overrides exactly the fields raw carries: each
\* field is raw's value when raw has one and the previous value otherwise,
\* merge(None) changes nothing, and the value returned is the receiver after
\* the call.
C15_MergeOverrides ==
    [][lastOp' = "merge" =>
        LET raw == lastArg'
        IN  /\ raw.tag = "None" => app_config' = app_config
            /\ raw.tag = "Some" =>
                \A f \in {"mouse_support", "paste_support", "frame_rate"} :
                    app_config'[f] =
                        IF raw.val[f].tag = "Some" THEN raw.val[f].val ELSE app_config[f]
            /\ result' = app_config']_vars

\* C15 witness: the merge of test_app_config_merge: both flags overridden to
\* false, the frame rate absent and kept at 60.
C15_Witness ==
    /\ lastOp = "merge"
    /\ lastArg = SomeR([mouse_support |-> SomeR(FALSE), paste_support |-> SomeR(FALSE),
                        frame_rate |-> NoneR])
    /\ app_config = [mouse_support |-> FALSE, paste_support |-> FALSE, frame_rate |-> 60]
    /\ result = app_config

\* C16: Tui::draw first updates the StatusBar with UpdateArea(area), before
\* the layout is split and before any component is painted, so that when the
\* StatusBar is painted its terminal_area is the area of this draw.
C16_AreaBeforePaint ==
    lastOp = "draw" =>
        /\ calls[1] = Call("StatusBar", "update", UpdateArea(lastArg), NoneR)
        /\ \A i \in DOMAIN calls : calls[i].method = "draw" => i > 1
        /\ components["StatusBar"].terminal_area = lastArg

\* C16 witness: a draw that painted the StatusBar, in an area that is not
\* the one the StatusBar starts with and not one ever dispatched.
C16_Witness ==
    /\ lastOp = "draw"
    /\ lastArg = Rect(0, 1, 100, SMALL_AREA_HEIGHT + 5)
    /\ Len(calls) = 5
    /\ calls[5].comp = "StatusBar" /\ calls[5].method = "draw"
    /\ components["StatusBar"].terminal_area = lastArg

\* The paint calls of the last draw, in the order they were made.
Paints == SelectSeq(calls, LAMBDA c : c.method = "draw")

\* C17: within one draw the components are painted in the order TitleBar,
\* CoreWindow, StatusBar; a component is painted only if every paint before
\* it succeeded; a failing paint ends the frame: draw returns the error and
\* the components after it are not painted.
C17_PaintOrder ==
    lastOp = "draw" =>
        /\ Len(Paints) \in 1..3
        /\ \A i \in DOMAIN Paints :
            Paints[i].comp = <<"TitleBar", "CoreWindow", "StatusBar">>[i]
        /\ \A i \in 1..(Len(Paints) - 1) : Paints[i].ret.tag = "Ok"
        /\ result = ErrR <=> Paints[Len(Paints)].ret.tag = "Err"
        /\ result = OkUnit <=> (Len(Paints) = 3 /\ Paints[3].ret.tag = "Ok")
        /\ result \in {OkUnit, ErrR}

\* C17 witness: the TitleBar was painted, the CoreWindow failed, the
\* StatusBar was not painted and draw returned the error.
C17_Witness ==
    /\ lastOp = "draw"
    /\ Len(Paints) = 2
    /\ Paints[1].ret = OkUnit
    /\ Paints[2].comp = "CoreWindow" /\ Paints[2].ret = ErrR
    /\ CallsOf("StatusBar") = {1}
    /\ result = ErrR

\* C18: StatusBar::update is safe for every action: it never fails,
\* UpdateArea(r) sets terminal_area to r and nothing else, Key(k, m) sets
\* last_key to Event::Key(k, m) and nothing else, and every other action
\* leaves the whole state of the StatusBar as it was.
C18_StatusBarUpdate ==
    [][\A i \in DOMAIN calls' :
        (calls'[i].comp = "StatusBar" /\ calls'[i].method = "update") =>
            LET a == calls'[i].arg
                before == components["StatusBar"]
                after == components'["StatusBar"]
                Kept(fields) == \A f \in fields : after[f] = before[f]
            IN  /\ calls'[i].ret = NoneR
                /\ DOMAIN after = DOMAIN before
                /\ a.type = "UpdateArea" =>
                    /\ after.terminal_area = a.area
                    /\ Kept(DOMAIN before \ {"terminal_area"})
                /\ a.type = "Key" =>
                    /\ after.last_key = [type |-> "Key", key |-> a.key, modifiers |-> a.modifiers]
                    /\ Kept(DOMAIN before \ {"last_key"})
                /\ a.type \notin {"UpdateArea", "Key"} => after = before]_vars

\* C18 witness: a key was dispatched to a StatusBar that had recorded an
\* area: the key is recorded and the area is still there.
C18_Witness ==
    /\ lastOp = "update"
    /\ lastArg.type = "Key"
    /\ \E i \in DOMAIN calls : calls[i].comp = "StatusBar"
    /\ components["StatusBar"].last_key =
            [type |-> "Key", key |-> lastArg.key, modifiers |-> lastArg.modifiers]
    /\ components["StatusBar"].terminal_area = Rect(0, 0, 100, 30)

\* C19: Tui::update applies the focus transition before it broadcasts and
\* never rolls it back: when a component's update fails while
\* FocusComponent(X) or UnfocusComponent is dispatched, the call returns the
\* error and the focus is the new one.
C19_NoRollback ==
    (lastOp = "update" /\ result = ErrR) =>
        focused = CASE lastArg.type = "FocusComponent" -> lastArg.name
                    [] lastArg.type = "UnfocusComponent" -> "None"
                    [] OTHER -> focused

\* C19 witness: FocusComponent(ChatList) failed in the first component
\* visited, and the shell is focused on ChatList.
C19_Witness ==
    /\ lastOp = "update"
    /\ lastArg = FocusComponent("ChatList")
    /\ Len(calls) = 1
    /\ result = ErrR
    /\ focused = "ChatList"

\* C20: the UpdateArea that Tui::draw issues is not a broadcast: within a
\* draw the StatusBar receives exactly one update, carrying the area, and
\* the TitleBar and the CoreWindow receive none, so the area the StatusBar
\* records is known to it alone.
C20_AreaToStatusBarOnly ==
    lastOp = "draw" =>
        /\ Cardinality({i \in DOMAIN calls : calls[i].method = "update"}) = 1
        /\ \A i \in DOMAIN calls :
            calls[i].method = "update" =>
                calls[i].comp = "StatusBar" /\ calls[i].arg = UpdateArea(lastArg)
        /\ \A i \in CallsOf("TitleBar") : calls[i].method = "draw"
        /\ \A i \in CallsOf("CoreWindow") : calls[i].method \in {"with_small_area", "draw"}

\* C20 witness: a full draw in an area no update ever broadcast: all three
\* components were painted, the StatusBar alone was told the area and
\* records it.
C20_Witness ==
    /\ lastOp = "draw"
    /\ lastArg \notin ScenarioAreas
    /\ CallsOf("TitleBar") # {} /\ CallsOf("CoreWindow") # {}
    /\ Cardinality(CallsOf("StatusBar")) = 2
    /\ components["StatusBar"].terminal_area = lastArg
    /\ result = OkUnit

====
